---------------------------- MODULE Spec2Model ----------------------------
(***************************************************************************)
(* Model of the NanoWrite wrapper (nanowrite.py): the job-state inference  *)
(* of has_finished(), command submission, the polling loop, abort() and    *)
(* the piezo position cache, together with the instrument they observe     *)
(* (its message log, its progress bar and its piezo fields), the parsing   *)
(* of the log file, the file sandbox of execute_complex_gwl_files, and     *)
(* the XML-RPC server (nanowrite_server.py).                               *)
(*                                                                         *)
(* A log message is a sequence of tokens.  The token "SEP" stands for the  *)
(* text '***Seperator***', "ERR" for '!!!', "DONE" for 'done.', "ABORTED"  *)
(* for 'aborted.', "NL" for a line break inside a merged message and "x"   *)
(* for any other text.                                                     *)
(***************************************************************************)
EXTENDS Integers, Sequences, FiniteSets, TLC

\* ------------------------------------------------------------------ bounds
\* Longest log the instrument is let to write.
MaxLog == 3
\* Longest log that exists when the wrapper object is constructed.
MaxInitLog == 1
\* Longest log has_finished() is applied to on its own.
MaxPollLog == 3
\* Floating-point numbers are modelled at reduced size: a number is an integer
\* count of units of 2^-FracBits, and the format keeps Precision significant
\* bits (the interpreter's float keeps 53).
FracBits == 3
Precision == 10

\* Most lines of a log file that get_current_log() is applied to.
MaxLines == 3

\* ------------------------------------------------------- program constants
\* if len(line) <= 30: continue
MinWidth == 30
\* bar_full = pixel_val[2] > 240 and pixel_val[1] < 100 and pixel_val[0] < 100
BlueMin == 240
OtherMax == 100
\* is_z_inverted: pixel[1] > 100
InvertedGreenMin == 100

\* ---------------------------------------------------------------- floats
RECURSIVE Pow2(_)
Pow2(n) == IF n = 0 THEN 1 ELSE 2 * Pow2(n - 1)

\* Number of bits of the natural number v.
RECURSIVE BitLen(_)
BitLen(v) == IF v = 0 THEN 0 ELSE 1 + BitLen(v \div 2)

\* The float of the integer literal n.
Float(n) == n * Pow2(FracBits)

\* Spacing of the floats around v, in units.
Ulp(v) == IF BitLen(v) > Precision THEN Pow2(BitLen(v) - Precision) ELSE 1

\* v rounded to the nearest float, ties to the even one.
Round(v) ==
    LET u == Ulp(v)
        q == v \div u
        r == v % u
    IN  IF 2 * r < u THEN q * u
        ELSE IF 2 * r > u THEN (q + 1) * u
        ELSE IF q % 2 = 0 THEN q * u
        ELSE (q + 1) * u

IsFloat(v) == Round(v) = v

\* a - b in floating point, for a >= b >= 0.
fsub(a, b) == Round(a - b)

\* self._piezo_range = (300, 300, 300)
piezo_range == <<Float(300), Float(300), Float(300)>>

\* ------------------------------------------------------------ log messages
mSep     == <<"SEP">>
mProg    == <<"x">>
mDone    == <<"DONE">>
mAborted == <<"ABORTED">>
mErr     == <<"ERR", "x">>
mErrDone == <<"x", "ERR", "DONE">>
mCont    == <<"x", "NL", "DONE">>

\* Messages that may be in the log before the wrapper attaches.
Messages == {mSep, mProg, mDone, mAborted, mErr, mErrDone, mCont}

\* Messages a running job writes besides its sentinel and its final marker.
JobMessages == {mProg, mErr}

\* Messages of earlier sessions found in the log at construction.
OldMessages == {mSep, mDone, mErr}

\* "tok in msg" of Python for the marker texts.
Contains(msg, tok) == \E i \in 1..Len(msg) : msg[i] = tok

\* re.match(r'.*done\.', msg): '.' does not match a line break, so the marker
\* must stand on the first line of the message.
MatchesDoneRe(msg) ==
    \E i \in 1..Len(msg) : /\ msg[i] = "DONE"
                           /\ \A j \in 1..(i-1) : msg[j] # "NL"

Last(s) == s[Len(s)]

RECURSIVE Reversed(_)
Reversed(s) == IF s = <<>> THEN <<>> ELSE Reversed(Tail(s)) \o <<Head(s)>>

\* A loop without the break: every message of the log is collected.
RECURSIVE ScanBackWhole(_, _)
ScanBackWhole(lg, i) ==
    IF i = 0 THEN <<>> ELSE <<lg[i]>> \o ScanBackWhole(lg, i - 1)

\* The loop of get_command_log over reversed(get_current_log()), started at
\* index i and walking down: every message is collected, and the walk stops
\* after collecting a message that contains the sentinel text.
RECURSIVE ScanBack(_, _)
ScanBack(lg, i) ==
    IF i = 0 THEN <<>>
    ELSE IF Contains(lg[i], "SEP") THEN <<lg[i]>>
    ELSE <<lg[i]>> \o ScanBack(lg, i - 1)

\* A get_command_log that leaves the sentinel message out of what it returns.
get_command_log_after_sentinel(lg) ==
    LET cl == Reversed(ScanBack(lg, Len(lg)))
    IN  IF cl # <<>> /\ Contains(Head(cl), "SEP") THEN Tail(cl) ELSE cl

get_command_log(lg) == Reversed(ScanBack(lg, Len(lg)))

\* The for-loop of has_finished over cmd_log: index of the first message
\* that contains '!!!', 0 when there is none.
RECURSIVE FirstErrFrom(_, _)
FirstErrFrom(cl, i) ==
    IF i > Len(cl) THEN 0
    ELSE IF Contains(cl[i], "ERR") THEN i
    ELSE FirstErrFrom(cl, i + 1)

\* ---------------------------------------------------------------- log file
\* A line of the log file: its length in characters (line break included),
\* what its first 28 characters are ("stamp": a time that strptime parses,
\* "blank": white space only, "junk": anything else), the time when it is
\* a stamp, and the text from character 29 on (without the line break).
Line(width, prefix, stamp, text) ==
    [width |-> width, prefix |-> prefix, stamp |-> stamp, text |-> text]

\* The loop of get_current_log over f.readlines(), from line i on, with the
\* entries collected so far.
RECURSIVE ParseFrom(_, _, _)
ParseFrom(lines, i, results) ==
    IF i > Len(lines) THEN [out |-> "ok", entries |-> results]
    ELSE LET line == lines[i]
         IN  IF line.width <= MinWidth
             THEN ParseFrom(lines, i + 1, results)
             ELSE IF line.prefix = "blank"
             THEN (IF Len(results) > 0
                   THEN ParseFrom(lines, i + 1,
                          [results EXCEPT ![Len(results)].text =
                                            @ \o <<"NL">> \o line.text])
                   ELSE [out |-> "AssertionError", entries |-> <<>>])
             ELSE IF line.prefix = "stamp"
             THEN ParseFrom(lines, i + 1,
                    Append(results, [timestamp |-> line.stamp,
                                     text |-> line.text]))
             ELSE [out |-> "ValueError", entries |-> <<>>]

\* get_current_log(): the entries in file order, or the exception raised.
get_current_log(lines) == ParseFrom(lines, 1, <<>>)

\* The lines a log file is made of: two lines of 30 characters; and, 31
\* characters or longer, a line of each prefix with a plain text and with
\* 'done.', the stamped ones at either of two times.
FileLines ==
    {Line(MinWidth, "blank", 0, <<>>), Line(MinWidth, "stamp", 1, <<>>)} \cup
    {Line(MinWidth + 1 + Len(t), p[1], p[2], t) :
       p \in {<<"blank", 0>>, <<"junk", 0>>, <<"stamp", 1>>, <<"stamp", 2>>},
       t \in {mProg, mDone}}

\* Files of at most MaxLines lines.
Files == UNION {[1..k -> FileLines] : k \in 0..MaxLines}

\* logfile where the file is not part of the program run.
NoFile == <<>>

\* The messages of a parsed log.
RECURSIVE Texts(_)
Texts(entries) ==
    IF entries = <<>> THEN <<>>
    ELSE <<Head(entries).text>> \o Texts(Tail(entries))

\* ------------------------------------------------------------------ pixels
\* Colours the finished-pixel can show: full blue, and one colour just off
\* each threshold.
Pixels == {<<99, 99, 241>>, <<100, 99, 241>>, <<99, 100, 241>>, <<99, 99, 240>>}

bar_full(px) == px[3] > BlueMin /\ px[2] < OtherMax /\ px[1] < OtherMax

NoMsg   == <<>>
None    == <<>>

\* --------------------------------------------------------------- has_finished
\* A Running branch that looks at the last message before it looks for
\* errors.
has_finished_running_marker_first(jr, lg, px) ==
    LET cl == get_command_log(lg)
        e  == FirstErrFrom(cl, 1)
    IN  IF cl = <<>>
        THEN [out |-> "IndexError", msg |-> NoMsg, jr |-> jr,
              readpx |-> FALSE, readlog |-> TRUE]
        ELSE IF Contains(Last(cl), "DONE") \/ Contains(Last(cl), "ABORTED")
        THEN [out |-> "true", msg |-> NoMsg, jr |-> FALSE,
              readpx |-> FALSE, readlog |-> TRUE]
        ELSE IF e # 0
        THEN [out |-> "ExecutionError", msg |-> cl[e], jr |-> FALSE,
              readpx |-> FALSE, readlog |-> TRUE]
        ELSE [out |-> "false", msg |-> NoMsg, jr |-> jr,
              readpx |-> FALSE, readlog |-> TRUE]

\* A Running branch that returns true without resetting the job state.
has_finished_running_keeps_state(jr, lg, px) ==
    LET cl == get_command_log(lg)
        e  == FirstErrFrom(cl, 1)
    IN  IF e # 0
        THEN [out |-> "ExecutionError", msg |-> cl[e], jr |-> FALSE,
              readpx |-> FALSE, readlog |-> TRUE]
        ELSE IF cl = <<>>
        THEN [out |-> "IndexError", msg |-> NoMsg, jr |-> jr,
              readpx |-> FALSE, readlog |-> TRUE]
        ELSE IF Contains(Last(cl), "DONE") \/ Contains(Last(cl), "ABORTED")
        THEN [out |-> "true", msg |-> NoMsg, jr |-> jr,
              readpx |-> FALSE, readlog |-> TRUE]
        ELSE [out |-> "false", msg |-> NoMsg, jr |-> jr,
              readpx |-> FALSE, readlog |-> TRUE]

\* A Running branch that raises the error without resetting the job state.
has_finished_running_error_keeps_state(jr, lg, px) ==
    LET cl == get_command_log(lg)
        e  == FirstErrFrom(cl, 1)
    IN  IF e # 0
        THEN [out |-> "ExecutionError", msg |-> cl[e], jr |-> jr,
              readpx |-> FALSE, readlog |-> TRUE]
        ELSE IF cl = <<>>
        THEN [out |-> "IndexError", msg |-> NoMsg, jr |-> jr,
              readpx |-> FALSE, readlog |-> TRUE]
        ELSE IF Contains(Last(cl), "DONE") \/ Contains(Last(cl), "ABORTED")
        THEN [out |-> "true", msg |-> NoMsg, jr |-> FALSE,
              readpx |-> FALSE, readlog |-> TRUE]
        ELSE [out |-> "false", msg |-> NoMsg, jr |-> jr,
              readpx |-> FALSE, readlog |-> TRUE]

\* Result of one has_finished() call on job state jr, log lg and sampled
\* pixel px: what it returns or raises, the message an ExecutionError
\* carries, the job state it leaves, and whether it read the pixel / the log.
has_finished_running(jr, lg, px) ==
    LET cl == get_command_log(lg)
        e  == FirstErrFrom(cl, 1)
    IN  IF e # 0
        THEN [out |-> "ExecutionError", msg |-> cl[e], jr |-> FALSE,
              readpx |-> FALSE, readlog |-> TRUE]
        ELSE IF cl = <<>>
        THEN [out |-> "IndexError", msg |-> NoMsg, jr |-> jr,
              readpx |-> FALSE, readlog |-> TRUE]
        ELSE IF Contains(Last(cl), "DONE") \/ Contains(Last(cl), "ABORTED")
        THEN [out |-> "true", msg |-> NoMsg, jr |-> FALSE,
              readpx |-> FALSE, readlog |-> TRUE]
        ELSE [out |-> "false", msg |-> NoMsg, jr |-> jr,
              readpx |-> FALSE, readlog |-> TRUE]

has_finished_idle(jr, lg, px) ==
    IF bar_full(px)
    THEN [out |-> "true", msg |-> NoMsg, jr |-> jr,
          readpx |-> TRUE, readlog |-> FALSE]
    ELSE IF lg = <<>>
    THEN [out |-> "IndexError", msg |-> NoMsg, jr |-> jr,
          readpx |-> TRUE, readlog |-> TRUE]
    ELSE IF MatchesDoneRe(Last(lg))
    THEN [out |-> "true", msg |-> NoMsg, jr |-> jr,
          readpx |-> TRUE, readlog |-> TRUE]
    ELSE [out |-> "false", msg |-> NoMsg, jr |-> jr,
          readpx |-> TRUE, readlog |-> TRUE]

has_finished(jr, lg, px) ==
    IF jr THEN has_finished_running(jr, lg, px)
          ELSE has_finished_idle(jr, lg, px)


\* ---------------------------------------------------------- piezo position
\* Readings the three piezo text fields can show.
RawPositions == {<<0, 0, 0>>, <<Float(100), Float(200), Float(300)>>}

\* Greens of the pixel at 'inverted_z_axis_pixel'.
InvertedGreens == {100, 101}

is_z_inverted(green) == green > InvertedGreenMin

\* The read branch of get_piezo_position: the three parsed fields, mirrored
\* in x and z when the z-inversion is on.
read_piezo_position_x_only(raw, green) ==
    IF is_z_inverted(green)
    THEN <<fsub(piezo_range[1], raw[1]), raw[2], raw[3]>>
    ELSE raw

read_piezo_position(raw, green) ==
    IF is_z_inverted(green)
    THEN <<fsub(piezo_range[1], raw[1]), raw[2], fsub(piezo_range[3], raw[3])>>
    ELSE raw

\* is_within_piezo_range(x, y, z)
is_within_piezo_range(pos) ==
    \A a \in 1..3 : 0 <= pos[a] /\ pos[a] <= piezo_range[a]

\* The z argument of move_piezo: None, or a coordinate.
NoZ == [given |-> FALSE, value |-> 0]
Z(value) == [given |-> TRUE, value |-> value]

\* Arguments of move_piezo: a position within the range with z given and
\* with z left out, and a position outside the range.
MoveArgs ==
    {<<Float(100), Float(200), Z(Float(300))>>,
     <<Float(100), Float(200), NoZ>>,
     <<Float(301), 0, Z(0)>>}

\* A cache that answers whether or not caching is enabled.
cache_hit_ignoring_mode(cached, enabled) == cached # None

\* Whether get_piezo_position answers from the cache.
cache_hit(cached, enabled) == cached # None /\ enabled

\* ----------------------------------------------------------------- scripts
Commands == {"c1"}

\* commands = 'MessageOut ***Seperator***\n' + commands + '\nwait 0.01'
wrap_commands(cmd) == <<"MessageOut ***Seperator***", cmd, "wait 0.01">>

\* Whether a script begins by emitting the sentinel.
emits_sentinel(script) == Head(script) = "MessageOut ***Seperator***"

\* ------------------------------------------------------------------- files
\* A file name or a path is the sequence of its parts between separators.
\* self._tmpfolder = tempfile.mkdtemp(suffix='nanowriteserver')
tmpfolder == <<"tmp", "nanowriteserver">>

\* Logical file names a caller passes: a plain name, a name that climbs out
\* with '..', and the name '..' alone.
FileNames == {<<"s.gwl">>, <<"..", "..", "x">>, <<"..">>}

\* Key sets of the file maps a caller passes, and the start names.
FileMaps == {{}, {<<"s.gwl">>}, {<<"s.gwl">>, <<"..", "..", "x">>},
             {<<"s.gwl">>, <<"..">>}}
StartNames == {<<"s.gwl">>, <<"..">>}

\* os.path.basename: what follows the last separator.
basename(name) == Last(name)

\* os.path.join of a directory and a name without separators.
join(dir, name) == Append(dir, name)

\* os.path.join(self._tmpfolder, os.path.basename(filename))
sandbox_path(name) == join(tmpfolder, basename(name))

\* The location open() resolves a path to: '.' and empty parts dropped, '..'
\* stepping up one directory.
RECURSIVE Resolve(_)
Resolve(path) ==
    IF path = <<>> THEN <<>>
    ELSE LET up   == Resolve(SubSeq(path, 1, Len(path) - 1))
             part == Last(path)
         IN  IF part \in {"", "."} THEN up
             ELSE IF part = ".."
             THEN (IF up = <<>> THEN <<>> ELSE SubSeq(up, 1, Len(up) - 1))
             ELSE Append(up, part)

\* Whether path names a directory: the sandbox directory or one above it.
\* open() on a directory raises IOError.
is_directory(path) ==
    LET r == Resolve(path)
    IN  Len(r) <= Len(tmpfolder) /\ r = SubSeq(tmpfolder, 1, Len(r))

\* readback_files=None, and readback_files a list of names.
NoReadback == [given |-> FALSE, names |-> {}]
ReadbackList(names) == [given |-> TRUE, names |-> names]

\* Values of readback_files: None, the empty list, and lists of one name.
Readbacks ==
    {NoReadback} \cup
    {ReadbackList(ns) : ns \in {{}, {<<"s.gwl">>}, {<<"..", "..", "x">>}}}

\* An assert that accepts any start name.
start_known_unchecked(start_name, gwl_files) == TRUE

\* assert start_name in gwl_files, 'Invalid start name given'
start_known(start_name, gwl_files) == start_name \in gwl_files

\* ------------------------------------------------------------------ server
\* A text is a sequence of tokens. base64 text carries the token "b64" in
\* front of what it encodes; BadPadding is base64 text of a wrong length.
b64encode(text) == <<"b64">> \o text
BadPadding == <<"b64?">>

\* base64.b64decode: the decoded text, or TypeError on incorrect padding.
b64decode(enc) ==
    IF enc = <<>> THEN [ok |-> TRUE, text |-> <<>>]
    ELSE IF Head(enc) = "b64" THEN [ok |-> TRUE, text |-> Tail(enc)]
    ELSE [ok |-> FALSE, text |-> <<>>]

\* str.partition(sep): the text before the first sep and the text after it;
\* the whole text and an empty text when there is no sep.
RECURSIVE FirstAt(_, _, _)
FirstAt(text, sep, i) ==
    IF i > Len(text) THEN 0
    ELSE IF text[i] = sep THEN i
    ELSE FirstAt(text, sep, i + 1)

partition(text, sep) ==
    LET i == FirstAt(text, sep, 1)
    IN  IF i = 0 THEN <<text, <<>>>>
        ELSE <<SubSeq(text, 1, i - 1), SubSeq(text, i + 1, Len(text))>>

\* The request headers: without an Authorization header, or with the header
\* value 'scheme encoded'.
NoHeader == [present |-> FALSE, value |-> <<>>]
Authorization(scheme, encoded) ==
    [present |-> TRUE, value |-> <<scheme, " ">> \o encoded]

\* user_auth = {'user': 'password'}, and the other values users_auth can
\* take: None and the empty dict. A dict is the set of its items.
NoUsers    == [none |-> TRUE, items |-> {}]
EmptyUsers == [none |-> FALSE, items |-> {}]
MainUsers  == [none |-> FALSE, items |-> {<<<<"user">>, <<"password">>>>}]
UserAuths  == {NoUsers, EmptyUsers, MainUsers}

Credentials(user, password) == b64encode(<<user, ":", password>>)

\* Requests a client can send: no header; the configured pair; a wrong
\* password; an unknown user; the configured pair under another scheme;
\* base64 text that does not decode.
Headers ==
    {NoHeader,
     Authorization("Basic", Credentials("user", "password")),
     Authorization("Basic", Credentials("user", "wrong")),
     Authorization("Basic", Credentials("nobody", "password")),
     Authorization("Bearer", Credentials("user", "password")),
     Authorization("Basic", BadPadding)}

\* authenticate(headers): "true" or "false" as it returns, or the exception
\* it raises.
authenticate(users_auth, headers) ==
    IF users_auth.none \/ users_auth.items = {} THEN "true"
    ELSE IF ~headers.present THEN "false"
    ELSE LET parts   == partition(headers.value, " ")
             basic   == parts[1]
             decoded == b64decode(parts[2])
             pair    == partition(decoded.text, ":")
         IN  IF basic # <<"Basic">> THEN "AssertionError"
             ELSE IF ~decoded.ok THEN "TypeError"
             ELSE IF <<pair[1], pair[2]>> \in users_auth.items THEN "true"
             ELSE "false"

\* VerifyingRequestHandler.parse_request for a request the base class
\* parsed: what the client gets and whether the request goes on to be
\* dispatched. An exception leaves the handler without a response; the
\* server closes the connection.
parse_request(users_auth, headers) ==
    LET a == authenticate(users_auth, headers)
    IN  IF a = "true"
        THEN [auth |-> a, response |-> "200", dispatched |-> TRUE]
        ELSE IF a = "false"
        THEN [auth |-> a, response |-> "401", dispatched |-> FALSE]
        ELSE [auth |-> a, response |-> "none", dispatched |-> FALSE]

\* ------------------------------------------------------------------- state
VARIABLES
    job_running,            \* self._job_running
    cache_piezo_position,   \* self._cache_piezo_position (constructor argument)
    cached_piezo_position,  \* self._cached_piezo_position, None when absent
    log,                    \* the instrument's message log, parsed
    job,                    \* what the instrument is executing
    sep_pending,            \* the running script has yet to emit its sentinel
    abort_req,              \* the abort button was clicked and not yet served
    piezo,                  \* what the piezo fields show
    z_green,                \* green of the z-inversion pixel
    pixel,                  \* colour of the finished-pixel of the progress bar
    pc,                     \* "idle": between calls; "wait", "complex",
                            \* "move": in a poll loop of that operation
    caller,                 \* the operation that entered the poll loop
    ret,                    \* the most recent API call and its outcome
    got,                    \* value of the last get_piezo_position, None once
                            \* the cache was invalidated after it
    written,                \* resolved paths of the files written to disk
    opened,                 \* resolved paths open() was called with
    call,                   \* arguments of the running
                            \* execute_complex_gwl_files and new_pos of the
                            \* running move_piezo, NoCall outside them
    server,                 \* the XML-RPC server: its credentials, where
                            \* serve_forever stands, self._finished, and the
                            \* last request with what became of it
    logfile,                \* the lines of the newest message log file
    job_from                \* number of messages the log held when the most
                            \* recently started job was started

vars == <<job_running, cache_piezo_position, cached_piezo_position,
          log, job, sep_pending, abort_req, piezo, z_green, pc, caller,
          pixel, ret, got, written, opened, call, server, logfile,
          job_from>>

wrapper   == <<job_running, cached_piezo_position>>
instr     == <<log, job, sep_pending, abort_req, piezo, z_green, pixel>>
control   == <<pc, caller>>
aside     == <<written, opened, call, server, logfile, job_from>>
apart     == <<written, opened, call, server, logfile>>

\* The record kept of the last request handled; NoRequest before the first.
NoRequest ==
    [seen |-> FALSE, headers |-> NoHeader, auth |-> "none",
     response |-> "none", dispatched |-> FALSE]

\* server where no server is part of the program run.
NoServer ==
    [users_auth |-> NoUsers, pc |-> "off", finished |-> FALSE,
     handled |-> 0, last |-> NoRequest]

\* call while no execute_complex_gwl_files is running.
NoCall ==
    [readback |-> [given |-> FALSE, names |-> {}], invalidate |-> FALSE,
     new_pos |-> None]

\* Logs of at most n messages drawn from msgs.
LogsUpTo(msgs, n) == UNION {[1..k -> msgs] : k \in 0..n}

\* The record kept of an API call: the operation; how it ended ("pending"
\* while it is in the poll loop); the outcome of its most recent
\* has_finished() call and whether the poll loop has polled; the value
\* returned or the message raised; and what the call did: its UI actions,
\* the field reads of get_piezo_position and the pixel and log reads of a
\* has_finished() called through the API.
Ret(op, out, p, val, did) ==
    [op |-> op, out |-> out, poll |-> p, polled |-> FALSE, val |-> val,
     did |-> did]

\* What a has_finished() call with result r read.
Reads(r) == (IF r.readpx THEN {"pixel"} ELSE {}) \cup
            (IF r.readlog THEN {"log"} ELSE {})

\* The state __init__ leaves (job state jrs = {FALSE}, caching as the
\* constructor argument says), the instrument idle with one of the logs, piezo
\* readings, inversion greens and finished-pixel colours given.
Start(jrs, caching, logs, raws, greens, pxs) ==
    /\ job_running \in jrs
    /\ cache_piezo_position \in caching
    /\ cached_piezo_position = None
    /\ log \in logs
    /\ job_from = Len(log)
    /\ job = "none"
    /\ sep_pending = FALSE
    /\ abort_req = FALSE
    /\ piezo \in raws
    /\ z_green \in greens
    /\ pixel \in pxs
    /\ pc = "idle"
    /\ caller = "none"
    /\ got = None
    /\ written = {}
    /\ opened = {}
    /\ call = NoCall
    /\ ret = Ret("init", "ok", "none", None, {})

\* Construction with the default arguments; the log holds at most MaxInitLog
\* messages of earlier sessions.
Init ==
    /\ Start({FALSE}, {TRUE}, LogsUpTo(OldMessages, MaxInitLog),
             {<<0, 0, 0>>}, {100}, Pixels)
    /\ server = NoServer
    /\ logfile = NoFile

\* A head check that lets the operation go on whenever has_finished() returned.
ready_when_returned(out) == out \in {"true", "false"}

\* "if not self.has_finished(): raise NanoWrite.NotReady()": whether the
\* operation goes on after a has_finished() that ended with out.
ready(out) == out = "true"

\* What the operation raises when it does not go on: NotReady, or what
\* has_finished() raised.
NotReadyOr(out) == IF out = "false" THEN "NotReady" ELSE out

\* ------------------------------------------------------------- operations
\* has_finished() called through the API.
HasFinished ==
    /\ pc = "idle"
    /\ LET r == has_finished(job_running, log, pixel)
       IN  /\ job_running' = r.jr
           /\ ret' = Ret("has_finished", r.out, r.out, r.msg, Reads(r))
    /\ UNCHANGED <<cache_piezo_position, cached_piezo_position,
                   instr, control, got>>
    /\ UNCHANGED aside

\* get_command_log() called on its own: the value it returns, as the list of
\* its messages in the order the returned iterator yields them.
GetCommandLog ==
    /\ pc = "idle"
    /\ ret' = Ret("get_command_log", "ok", "none", get_command_log(log),
                  {"log"})
    /\ UNCHANGED <<wrapper, cache_piezo_position, instr, control, got>>
    /\ UNCHANGED aside

\* get_current_log() called on its own.
GetCurrentLog ==
    /\ pc = "idle"
    /\ LET r == get_current_log(logfile)
       IN  ret' = Ret("get_current_log", r.out, "none", r.entries, {"file"})
    /\ UNCHANGED <<wrapper, cache_piezo_position, instr, control, got>>
    /\ UNCHANGED aside

\* invalidate_piezo_position()
InvalidatePiezoPosition ==
    /\ pc = "idle"
    /\ cached_piezo_position' = None
    /\ got' = None
    /\ ret' = Ret("invalidate_piezo_position", "ok", "none", None, {})
    /\ UNCHANGED <<job_running, cache_piezo_position, instr, control>>
    /\ UNCHANGED aside

\* get_piezo_position(); parses is whether float() accepts the field texts.
GetPiezoPosition ==
    /\ pc = "idle"
    /\ IF cache_hit(cached_piezo_position, cache_piezo_position)
       THEN /\ ret' = Ret("get_piezo_position", "ok", "none",
                          cached_piezo_position, {})
            /\ got' = cached_piezo_position
            /\ UNCHANGED cached_piezo_position
       ELSE \E parses \in BOOLEAN :
              IF parses
              THEN LET v == read_piezo_position(piezo, z_green)
                   IN  /\ cached_piezo_position' = v
                       /\ got' = v
                       /\ ret' = Ret("get_piezo_position", "ok", "none", v,
                                     {"fields"})
              ELSE /\ ret' = Ret("get_piezo_position", "ValueError", "none",
                                 None, {"fields"})
                   /\ UNCHANGED <<cached_piezo_position, got>>
    /\ UNCHANGED <<job_running, cache_piezo_position, instr, control>>
    /\ UNCHANGED aside

\* A command that never invalidates the piezo position.
kept_never_invalidated(invalidate_piezo, value) == value

\* "if invalidate_piezo: self.invalidate_piezo_position()" at the end of a
\* command: what is left of a cached value.
kept_unless(invalidate_piezo, value) ==
    IF invalidate_piezo THEN None ELSE value

\* A submit that clicks 'submit' whatever execute says.
submits_always(execute) == TRUE

\* "if execute:" of execute_mini_gwl: whether the pasted script is submitted.
submits(execute) == execute

\* execute_mini_gwl(commands, execute, invalidate_piezo=invalidate)
ExecuteMiniGwl(cmd, execute, invalidate) ==
    /\ pc = "idle"
    /\ LET r == has_finished(job_running, log, pixel)
       IN  IF ~ready(r.out)
           THEN /\ job_running' = r.jr
                /\ ret' = Ret("execute_mini_gwl", NotReadyOr(r.out), r.out,
                              r.msg, {})
                /\ UNCHANGED <<cached_piezo_position, job,
                               sep_pending, got, job_from>>
           ELSE /\ IF submits(execute)
                   THEN /\ job' = "run"
                        /\ job_from' = Len(log)
                        /\ sep_pending' = emits_sentinel(wrap_commands(cmd))
                        /\ job_running' = TRUE
                        /\ cached_piezo_position' =
                             kept_unless(invalidate, cached_piezo_position)
                        /\ got' = kept_unless(invalidate, got)
                        /\ ret' = Ret("execute_mini_gwl", "ok", r.out, None,
                                      {"paste", "submit", "camera"})
                   ELSE /\ job_running' = r.jr
                        /\ ret' = Ret("execute_mini_gwl", "staged", r.out,
                                      None, {"paste"})
                        /\ UNCHANGED <<cached_piezo_position, job,
                                       sep_pending, got, job_from>>
    /\ UNCHANGED <<cache_piezo_position, log, abort_req, piezo, z_green,
                   pixel, control>>
    /\ UNCHANGED apart

\* start_dlw(invalidate_piezo=invalidate); emits is whether the loaded
\* structure begins by emitting the sentinel.
StartDlw(invalidate, emits) ==
    /\ pc = "idle"
    /\ LET r == has_finished(job_running, log, pixel)
       IN  IF ~ready(r.out)
           THEN /\ job_running' = r.jr
                /\ ret' = Ret("start_dlw", NotReadyOr(r.out), r.out, r.msg,
                              {})
                /\ UNCHANGED <<cached_piezo_position, job, sep_pending,
                               got, job_from>>
           ELSE /\ job' = "run"
                /\ job_from' = Len(log)
                /\ sep_pending' = emits
                /\ job_running' = TRUE
                /\ cached_piezo_position' =
                     kept_unless(invalidate, cached_piezo_position)
                /\ got' = kept_unless(invalidate, got)
                /\ ret' = Ret("start_dlw", "ok", r.out, None,
                              {"start_dlw", "camera"})
    /\ UNCHANGED <<cache_piezo_position, log, abort_req, piezo,
                   z_green, pixel, control>>
    /\ UNCHANGED apart

\* load_gwl_file(file_path) up to its wait_until_finished() call.
LoadGwlFile ==
    /\ pc = "idle"
    /\ LET r == has_finished(job_running, log, pixel)
       IN  IF ~ready(r.out)
           THEN /\ job_running' = r.jr
                /\ ret' = Ret("load_gwl_file", NotReadyOr(r.out), r.out,
                              r.msg, {})
                /\ UNCHANGED <<job, sep_pending, control, job_from>>
           ELSE /\ job' = "load"
                /\ job_from' = Len(log)
                /\ sep_pending' = FALSE
                /\ job_running' = TRUE
                /\ pc' = "wait"
                /\ caller' = "load_gwl_file"
                /\ ret' = Ret("load_gwl_file", "pending", r.out, None,
                              {"load_structure", "open_file"})
    /\ UNCHANGED <<cache_piezo_position, cached_piezo_position, log,
                   abort_req, piezo, z_green, pixel, got>>
    /\ UNCHANGED apart

\* wait_until_finished() called through the API: enters the poll loop.
WaitUntilFinished ==
    /\ pc = "idle"
    /\ pc' = "wait"
    /\ caller' = "wait_until_finished"
    /\ ret' = Ret("wait_until_finished", "pending", "none", None, {})
    /\ UNCHANGED <<wrapper, cache_piezo_position, instr, got>>
    /\ UNCHANGED aside

\* abort() up to its wait_until_finished() call: the click on 'abort'.
Abort ==
    /\ pc = "idle"
    /\ abort_req' = TRUE
    /\ pc' = "wait"
    /\ caller' = "abort"
    /\ ret' = Ret("abort", "pending", "none", None, {"abort"})
    /\ UNCHANGED <<wrapper, cache_piezo_position, log, job,
                   sep_pending, piezo, z_green, pixel, got>>
    /\ UNCHANGED aside

\* An "if" in place of the "while": the wait ends after one unfinished poll.
wait_step_once(out) ==
    IF out \in {"true", "false"} THEN "return" ELSE "raise"

\* "while not self.has_finished()": what the loop does with a poll's outcome.
wait_step(out) ==
    IF out = "true" THEN "return"
    ELSE IF out = "false" THEN "loop"
    ELSE "raise"

\* Whether the caller of wait_until_finished() invalidates the piezo position
\* once the wait has ended the way d says.
invalidates_after_wait(op, d) == op = "abort" /\ d = "return"

\* One iteration of wait_until_finished() and, when the loop ends, the rest
\* of the operation that called it.
WaitPoll ==
    /\ pc = "wait"
    /\ LET r == has_finished(job_running, log, pixel)
           d == wait_step(r.out)
       IN  /\ job_running' = r.jr
           /\ IF d = "loop"
              THEN /\ ret' = [ret EXCEPT !.poll = r.out, !.polled = TRUE]
                   /\ UNCHANGED <<pc, caller, cached_piezo_position, got>>
              ELSE /\ pc' = "idle"
                   /\ caller' = "none"
                   /\ ret' = [ret EXCEPT
                                !.out = IF d = "return" THEN "ok" ELSE r.out,
                                !.poll = r.out, !.polled = TRUE,
                                !.val = r.msg]
                   /\ IF invalidates_after_wait(caller, d)
                      THEN /\ cached_piezo_position' = None
                           /\ got' = None
                      ELSE UNCHANGED <<cached_piezo_position, got>>
    /\ UNCHANGED <<cache_piezo_position, instr>>
    /\ UNCHANGED aside

\* set_z_inverted(state): the click on the inversion box when the box does
\* not show the state asked for; the box toggles, and the closing assert
\* holds.
SetZInverted(state) ==
    /\ pc = "idle"
    /\ IF is_z_inverted(z_green) # state
       THEN /\ z_green' = IF state THEN InvertedGreenMin + 1
                          ELSE InvertedGreenMin
            /\ ret' = Ret("set_z_inverted", "ok", "none", None, {"click"})
       ELSE /\ ret' = Ret("set_z_inverted", "ok", "none", None, {})
            /\ UNCHANGED z_green
    /\ UNCHANGED <<wrapper, cache_piezo_position, log, job, sep_pending,
                   abort_req, piezo, pixel, control, got>>
    /\ UNCHANGED aside

\* move_piezo(x, y, z) up to its wait_until_finished() call: the
\* get_piezo_position() that supplies a missing z, and
\* execute_mini_gwl(gwl, invalidate_piezo=True).
MovePiezo(x, y, z) ==
    /\ pc = "idle"
    /\ \E parses \in BOOLEAN :
         LET hit   == cache_hit(cached_piezo_position, cache_piezo_position)
             reads == ~z.given /\ ~hit
             pos   == IF hit THEN cached_piezo_position
                      ELSE read_piezo_position(piezo, z_green)
             did   == IF reads THEN {"fields"} ELSE {}
         IN  IF reads /\ ~parses
             THEN /\ ret' = Ret("move_piezo", "ValueError", "none", None, did)
                  /\ UNCHANGED <<wrapper, got, job, sep_pending, control,
                                 call, job_from>>
             ELSE LET new_pos == <<x, y, IF z.given THEN z.value ELSE pos[3]>>
                      r       == has_finished(job_running, log, pixel)
                  IN  IF ~ready(r.out)
                      THEN /\ job_running' = r.jr
                           /\ cached_piezo_position' =
                                IF z.given THEN cached_piezo_position ELSE pos
                           /\ got' = IF z.given THEN got ELSE pos
                           /\ ret' = Ret("move_piezo", NotReadyOr(r.out),
                                         r.out, r.msg, did)
                           /\ UNCHANGED <<job, sep_pending, control, call,
                                          job_from>>
                      ELSE /\ job' = "run"
                           /\ job_from' = Len(log)
                           /\ sep_pending' =
                                emits_sentinel(wrap_commands("write"))
                           /\ job_running' = TRUE
                           /\ cached_piezo_position' = kept_unless(TRUE, pos)
                           /\ got' = kept_unless(TRUE, pos)
                           /\ pc' = "move"
                           /\ caller' = "move_piezo"
                           /\ call' = [NoCall EXCEPT !.new_pos = new_pos]
                           /\ ret' = Ret("move_piezo", "pending", r.out, None,
                                         did \cup {"paste", "submit",
                                                   "camera"})
    /\ UNCHANGED <<cache_piezo_position, log, abort_req, piezo, z_green,
                   pixel>>
    /\ UNCHANGED <<written, opened, server, logfile>>

\* One iteration of the wait_until_finished() loop inside move_piezo and,
\* when the loop ends, the assignment to the cache that follows it.
MovePoll ==
    /\ pc = "move"
    /\ LET r == has_finished(job_running, log, pixel)
           d == wait_step(r.out)
       IN  /\ job_running' = r.jr
           /\ IF d = "loop"
              THEN /\ ret' = [ret EXCEPT !.poll = r.out, !.polled = TRUE]
                   /\ UNCHANGED <<control, call, cached_piezo_position>>
              ELSE /\ pc' = "idle"
                   /\ caller' = "none"
                   /\ call' = NoCall
                   /\ ret' = [ret EXCEPT
                                !.out = IF d = "return" THEN "ok" ELSE r.out,
                                !.poll = r.out, !.polled = TRUE,
                                !.val = r.msg]
                   /\ cached_piezo_position' =
                        IF d = "raise" THEN cached_piezo_position
                        ELSE IF is_within_piezo_range(call.new_pos)
                        THEN call.new_pos
                        ELSE None
    /\ UNCHANGED <<cache_piezo_position, instr, got>>
    /\ UNCHANGED <<written, opened, server, logfile, job_from>>

\* execute_complex_gwl_files(start_name, gwl_files, readback_files,
\* invalidate_piezo) up to the wait inside its load_gwl_file() call: the
\* assert, the writing of the files (in the order the dict gives them) and
\* the head of load_gwl_file. gwl_files is the set of the dict's keys.
ExecuteComplexGwlFiles(start_name, gwl_files, readback_files, invalidate) ==
    /\ pc = "idle"
    /\ IF ~start_known(start_name, gwl_files)
       THEN /\ ret' = Ret("execute_complex_gwl_files", "AssertionError",
                          "none", None, {})
            /\ UNCHANGED <<wrapper, job, sep_pending, control, aside>>
       ELSE LET paths == {sandbox_path(n) : n \in gwl_files \cup {start_name}}
                bad   == {p \in paths : is_directory(p)}
            IN  IF bad # {}
                THEN /\ \E done \in SUBSET (paths \ bad), b \in bad :
                          /\ written' = written \cup {Resolve(p) : p \in done}
                          /\ opened' = opened \cup
                                         {Resolve(p) : p \in done \cup {b}}
                     /\ ret' = Ret("execute_complex_gwl_files", "IOError",
                                   "none", None, {"write"})
                     /\ UNCHANGED <<wrapper, job, sep_pending, control, call,
                                    job_from>>
                ELSE /\ written' = written \cup {Resolve(p) : p \in paths}
                     /\ opened' = opened \cup {Resolve(p) : p \in paths}
                     /\ LET r == has_finished(job_running, log, pixel)
                        IN  IF ~ready(r.out)
                            THEN /\ job_running' = r.jr
                                 /\ ret' = Ret("execute_complex_gwl_files",
                                               NotReadyOr(r.out), r.out, r.msg,
                                               {"write"})
                                 /\ UNCHANGED <<job, sep_pending, control,
                                                call, job_from>>
                            ELSE /\ job' = "load"
                                 /\ job_from' = Len(log)
                                 /\ sep_pending' = FALSE
                                 /\ job_running' = TRUE
                                 /\ pc' = "complex"
                                 /\ caller' = "load_gwl_file"
                                 /\ call' = [readback |-> readback_files,
                                             invalidate |-> invalidate,
                                             new_pos |-> None]
                                 /\ ret' = Ret("execute_complex_gwl_files",
                                               "pending", r.out, None,
                                               {"write", "load_structure",
                                                "open_file"})
                     /\ UNCHANGED cached_piezo_position
    /\ UNCHANGED <<cache_piezo_position, log, abort_req, piezo, z_green,
                   pixel, got>>
    /\ UNCHANGED <<server, logfile>>

\* The read loop over readback_files: every file is opened 'rb' in turn; a
\* directory or a file that does not exist raises IOError. Files the job
\* generated may or may not exist.
ReadBack(names) ==
    LET paths == {sandbox_path(n) : n \in names}
        dirs  == {p \in paths : is_directory(p)}
    IN  \E missing \in SUBSET {p \in paths \ dirs : Resolve(p) \notin written} :
          LET bad == dirs \cup missing
          IN  IF bad = {}
              THEN /\ opened' = opened \cup {Resolve(p) : p \in paths}
                   /\ ret' = [ret EXCEPT !.out = "ok", !.poll = "true",
                                         !.polled = TRUE,
                                         !.did = @ \cup {"read"}]
              ELSE /\ \E done \in SUBSET (paths \ bad), b \in bad :
                        opened' = opened \cup
                                    {Resolve(p) : p \in done \cup {b}}
                   /\ ret' = [ret EXCEPT !.out = "IOError", !.poll = "true",
                                         !.polled = TRUE,
                                         !.did = @ \cup {"read"}]

\* One iteration of a wait_until_finished() loop inside
\* execute_complex_gwl_files and, when the loop ends, what follows it: after
\* the wait of load_gwl_file the wait of line 374, after that start_dlw,
\* after the wait of line 379 the reading of the readback files.
ComplexPoll ==
    /\ pc = "complex"
    /\ caller \in {"load_gwl_file", "wait_until_finished", "readback"}
    /\ LET r == has_finished(job_running, log, pixel)
           d == wait_step(r.out)
       IN  /\ job_running' = r.jr
           /\ IF d = "loop"
              THEN /\ ret' = [ret EXCEPT !.poll = r.out, !.polled = TRUE]
                   /\ UNCHANGED <<control, call, opened>>
              ELSE IF d = "raise"
              THEN /\ ret' = [ret EXCEPT !.out = r.out, !.poll = r.out,
                                         !.polled = TRUE, !.val = r.msg]
                   /\ pc' = "idle"
                   /\ caller' = "none"
                   /\ call' = NoCall
                   /\ UNCHANGED opened
              ELSE IF caller = "load_gwl_file"
              THEN /\ caller' = "wait_until_finished"
                   /\ ret' = [ret EXCEPT !.poll = r.out, !.polled = TRUE]
                   /\ UNCHANGED <<pc, call, opened>>
              ELSE IF caller = "wait_until_finished"
              THEN /\ caller' = "start_dlw"
                   /\ ret' = [ret EXCEPT !.poll = r.out, !.polled = TRUE]
                   /\ UNCHANGED <<pc, call, opened>>
              ELSE /\ ReadBack(call.readback.names)
                   /\ pc' = "idle"
                   /\ caller' = "none"
                   /\ call' = NoCall
    /\ UNCHANGED <<cache_piezo_position, cached_piezo_position, instr, got,
                   written>>
    /\ UNCHANGED <<server, logfile, job_from>>

\* The start_dlw(invalidate_piezo) call of execute_complex_gwl_files and the
\* return that follows it when readback_files is None. The start file was
\* written with the sentinel in front.
ComplexStart ==
    /\ pc = "complex"
    /\ caller = "start_dlw"
    /\ LET r == has_finished(job_running, log, pixel)
       IN  IF ~ready(r.out)
           THEN /\ job_running' = r.jr
                /\ ret' = [ret EXCEPT !.out = NotReadyOr(r.out),
                                      !.poll = r.out, !.val = r.msg]
                /\ pc' = "idle"
                /\ caller' = "none"
                /\ call' = NoCall
                /\ UNCHANGED <<cached_piezo_position, job, sep_pending, got,
                               job_from>>
           ELSE /\ job' = "run"
                /\ job_from' = Len(log)
                /\ sep_pending' = emits_sentinel(wrap_commands("start"))
                /\ job_running' = TRUE
                /\ cached_piezo_position' =
                     kept_unless(call.invalidate, cached_piezo_position)
                /\ got' = kept_unless(call.invalidate, got)
                /\ IF call.readback = NoReadback
                   THEN /\ ret' = [ret EXCEPT
                                     !.out = "ok", !.poll = r.out,
                                     !.did = @ \cup {"start_dlw", "camera"}]
                        /\ pc' = "idle"
                        /\ caller' = "none"
                        /\ call' = NoCall
                   ELSE /\ ret' = [ret EXCEPT
                                     !.poll = r.out, !.polled = FALSE,
                                     !.did = @ \cup {"start_dlw", "camera"}]
                        /\ caller' = "readback"
                        /\ UNCHANGED <<pc, call>>
    /\ UNCHANGED <<cache_piezo_position, log, abort_req, piezo, z_green,
                   pixel, written, opened>>
    /\ UNCHANGED <<server, logfile>>

\* ----------------------------------------------------- server operations
\* Most requests the model lets the server handle.
MaxRequests == 2

\* What the server shares with nothing else: a server step leaves the
\* wrapper, the instrument and the files alone.
beside == <<job_running, cache_piezo_position, cached_piezo_position,
            log, job, sep_pending, abort_req, piezo, z_green, pixel, pc,
            caller, ret, got, written, opened, call, logfile, job_from>>

\* A loop that goes on whatever the flag says.
loop_continues_always(finished) == TRUE

\* "while not self._finished"
loop_continues(finished) == ~finished

\* serve_forever() is entered: self._finished = False.
ServeForever ==
    /\ server.pc = "created"
    /\ server' = [server EXCEPT !.finished = FALSE, !.pc = "test"]
    /\ UNCHANGED beside

\* The test of the while loop of serve_forever(): the loop goes into
\* handle_request() or serve_forever() returns.
LoopTest ==
    /\ server.pc = "test"
    /\ server' = [server EXCEPT
                    !.pc = IF loop_continues(server.finished)
                           THEN "handle" ELSE "returned"]
    /\ UNCHANGED beside

\* handle_request() returns after self.timeout without a request.
HandleTimeout ==
    /\ server.pc = "handle"
    /\ server' = [server EXCEPT !.pc = "test"]
    /\ UNCHANGED beside

\* handle_request() handles one request with the given headers.
HandleRequest(headers) ==
    /\ server.pc = "handle"
    /\ server.handled < MaxRequests
    /\ LET p == parse_request(server.users_auth, headers)
       IN  server' = [server EXCEPT
                       !.pc = "test",
                       !.handled = @ + 1,
                       !.last = [seen |-> TRUE, headers |-> headers,
                                 auth |-> p.auth, response |-> p.response,
                                 dispatched |-> p.dispatched]]
    /\ UNCHANGED beside

\* The registered signal arrives: _signal_handler calls shutdown(), which
\* sets self._finished = True. The handler runs between any two steps of
\* the main thread once it is registered.
Signal ==
    /\ server.pc \in {"created", "test", "handle"}
    /\ ~server.finished
    /\ server' = [server EXCEPT !.finished = TRUE]
    /\ UNCHANGED beside

\* -------------------------------------------------------------- instrument
Busy == job # "none"

\* The progress bar once a job has restarted it, and once a job has filled it.
BarPartial == <<99, 99, 240>>
BarFull    == <<99, 99, 241>>

\* The running script executes its leading MessageOut ***Seperator***.
InstrSentinel ==
    /\ Busy /\ sep_pending /\ Len(log) < MaxLog
    /\ log' = Append(log, mSep)
    /\ sep_pending' = FALSE
    /\ pixel' = BarPartial
    /\ UNCHANGED <<wrapper, cache_piezo_position, job, abort_req,
                   piezo, z_green, control, ret, got>>
    /\ UNCHANGED aside

\* The running job writes a message.
InstrMessage ==
    /\ Busy /\ ~sep_pending /\ Len(log) < MaxLog
    /\ \E m \in JobMessages : log' = Append(log, m)
    /\ pixel' = BarPartial
    /\ UNCHANGED <<wrapper, cache_piezo_position, job, sep_pending,
                   abort_req, piezo, z_green, control, ret, got>>
    /\ UNCHANGED aside

\* The running job moves the piezo.
InstrMove ==
    /\ job = "run" /\ ~sep_pending
    /\ \E p \in RawPositions \ {piezo} : piezo' = p
    /\ UNCHANGED <<wrapper, cache_piezo_position, log, job,
                   sep_pending, abort_req, z_green, pixel, control, ret, got>>
    /\ UNCHANGED aside

\* The running job completes: the instrument writes 'done.' and the bar is
\* full.
InstrFinish ==
    /\ Busy /\ ~sep_pending /\ Len(log) < MaxLog
    /\ log' = Append(log, mDone)
    /\ job' = "none"
    /\ pixel' = BarFull
    /\ UNCHANGED <<wrapper, cache_piezo_position, sep_pending,
                   abort_req, piezo, z_green, control, ret, got>>
    /\ UNCHANGED aside

\* The instrument serves the abort click: a running job stops with
\* 'aborted.', the bar left where it was; an idle instrument ignores the
\* click.
InstrAbort ==
    /\ abort_req
    /\ abort_req' = FALSE
    /\ IF Busy
       THEN /\ Len(log) < MaxLog
            /\ log' = Append(log, mAborted)
            /\ job' = "none"
            /\ sep_pending' = FALSE
       ELSE UNCHANGED <<log, job, sep_pending>>
    /\ UNCHANGED <<wrapper, cache_piezo_position, piezo, z_green,
                   pixel, control, ret, got>>
    /\ UNCHANGED aside

\* The API calls and the instrument's steps that write its log.
Next ==
    \/ HasFinished
    \/ InvalidatePiezoPosition
    \/ GetPiezoPosition
    \/ \E c \in Commands, e \in BOOLEAN, i \in BOOLEAN : ExecuteMiniGwl(c, e, i)
    \/ \E i \in BOOLEAN, s \in BOOLEAN : StartDlw(i, s)
    \/ LoadGwlFile
    \/ WaitUntilFinished
    \/ Abort
    \/ WaitPoll
    \/ InstrSentinel
    \/ InstrMessage
    \/ InstrFinish
    \/ InstrAbort

Spec == Init /\ [][Next]_vars

\* The position cache: either caching mode, either inversion, a piezo that
\* jobs move, and a log one message short of the bound.
InitCache ==
    /\ Start({FALSE}, BOOLEAN, {[i \in 1..(MaxLog - 1) |-> mDone]},
             RawPositions, InvertedGreens, {BarFull})
    /\ server = NoServer
    /\ logfile = NoFile

NextCache == Next \/ InstrMove

SpecCache == InitCache /\ [][NextCache]_vars

\* has_finished() on its own: either job state, every log of at most
\* MaxPollLog messages and every pixel colour.
InitPoll ==
    /\ Start(BOOLEAN, {TRUE}, LogsUpTo(Messages, MaxPollLog),
             {<<0, 0, 0>>}, {100}, Pixels)
    /\ server = NoServer
    /\ logfile = NoFile

NextPoll == HasFinished

SpecPoll == InitPoll /\ [][NextPoll]_vars

\* get_command_log() on every log of at most MaxPollLog messages.
InitLog ==
    /\ Start({FALSE}, {TRUE}, LogsUpTo(Messages, MaxPollLog),
             {<<0, 0, 0>>}, {100}, {BarFull})
    /\ server = NoServer
    /\ logfile = NoFile

NextLog == GetCommandLog

SpecLog == InitLog /\ [][NextLog]_vars

\* get_current_log() on every log file of at most MaxLines lines; the log
\* is what the file parses to.
InitParse ==
    /\ \E f \in Files :
         /\ Start({FALSE}, {TRUE}, {Texts(get_current_log(f).entries)},
                  {<<0, 0, 0>>}, {100}, {BarFull})
         /\ logfile = f
    /\ server = NoServer

NextParse == GetCurrentLog

SpecParse == InitParse /\ [][NextParse]_vars

\* The inversion transform applied to every float position of the piezo
\* range: x over all floats of [0, range], z over a few of them.
Coordinates == {v \in 0..piezo_range[1] : IsFloat(v)}

ZSamples == {0, 1, Float(150), piezo_range[3]}

InitInv ==
    /\ Start({FALSE}, BOOLEAN, {<<mDone>>},
             {<<x, Float(200), z>> : x \in Coordinates, z \in ZSamples},
             InvertedGreens, {BarFull})
    /\ server = NoServer
    /\ logfile = NoFile

NextInv == GetPiezoPosition

SpecInv == InitInv /\ [][NextInv]_vars

\* execute_complex_gwl_files on an instrument whose log is empty or ends
\* with 'done.', with the calls made one after the other.
InitFiles ==
    /\ Start({FALSE}, {TRUE}, {<<>>, <<mDone>>},
             {<<0, 0, 0>>}, {100}, {BarFull, BarPartial})
    /\ server = NoServer
    /\ logfile = NoFile

NextFiles ==
    \/ \E s \in StartNames, fs \in FileMaps, rb \in Readbacks,
          i \in BOOLEAN : ExecuteComplexGwlFiles(s, fs, rb, i)
    \/ ComplexPoll
    \/ ComplexStart
    \/ InstrSentinel
    \/ InstrMessage
    \/ InstrFinish

SpecFiles == InitFiles /\ [][NextFiles]_vars

\* The commands that start a job, with get_piezo_position() filling the
\* cache between them: execute_mini_gwl, start_dlw and
\* execute_complex_gwl_files with one file, with and without read-back.
CommandFiles == {<<"s.gwl">>}

CommandReadbacks == {NoReadback, ReadbackList({<<"s.gwl">>})}

InitCommands ==
    /\ Start({FALSE}, {TRUE}, {<<>>}, {<<0, 0, 0>>}, {100}, {BarFull})
    /\ server = NoServer
    /\ logfile = NoFile

NextCommands ==
    \/ GetPiezoPosition
    \/ \E c \in Commands, e \in BOOLEAN, i \in BOOLEAN : ExecuteMiniGwl(c, e, i)
    \/ \E i \in BOOLEAN, s \in BOOLEAN : StartDlw(i, s)
    \/ \E rb \in CommandReadbacks, i \in BOOLEAN :
         ExecuteComplexGwlFiles(<<"s.gwl">>, CommandFiles, rb, i)
    \/ ComplexPoll
    \/ ComplexStart
    \/ InstrSentinel
    \/ InstrMessage
    \/ InstrFinish

SpecCommands == InitCommands /\ [][NextCommands]_vars

\* The position cache with the operations that fill it and those that
\* change what the instrument shows: get_piezo_position, move_piezo,
\* set_z_inverted, a submitted job that moves the piezo.
InitCoherence ==
    /\ Start({FALSE}, {TRUE}, {<<mDone>>}, RawPositions, InvertedGreens,
             {BarFull})
    /\ server = NoServer
    /\ logfile = NoFile

NextCoherence ==
    \/ GetPiezoPosition
    \/ InvalidatePiezoPosition
    \/ \E state \in BOOLEAN : SetZInverted(state)
    \/ \E a \in MoveArgs : MovePiezo(a[1], a[2], a[3])
    \/ MovePoll
    \/ \E c \in Commands, i \in BOOLEAN : ExecuteMiniGwl(c, TRUE, i)
    \/ InstrSentinel
    \/ InstrMessage
    \/ InstrMove
    \/ InstrFinish

SpecCoherence == InitCoherence /\ [][NextCoherence]_vars

\* The server of the main script, constructed with one of the credential
\* sets and its shutdown signal registered, about to enter serve_forever().
InitServer ==
    /\ Start({FALSE}, {TRUE}, {<<mDone>>}, {<<0, 0, 0>>}, {100}, {BarFull})
    /\ server \in {[NoServer EXCEPT !.users_auth = u, !.pc = "created"] :
                     u \in UserAuths}
    /\ logfile = NoFile

NextServer ==
    \/ ServeForever
    \/ LoopTest
    \/ HandleTimeout
    \/ \E h \in Headers : HandleRequest(h)
    \/ Signal

SpecServer == InitServer /\ [][NextServer]_vars

\* The same with the main thread making progress: the loop test is
\* evaluated and handle_request() comes back.
SpecServerLive ==
    /\ SpecServer
    /\ WF_vars(LoopTest)
    /\ WF_vars(HandleTimeout \/ \E h \in Headers : HandleRequest(h))

\* The main script: serve_forever() is called right after the signal is
\* registered, so the main thread also gets to enter it.
SpecServerMain == SpecServerLive /\ WF_vars(ServeForever)

\* ---------------------------------------------------------------- claims
\* Index of the last log message that contains the sentinel, 0 when none does.
LastSentinel(lg) ==
    IF \E i \in 1..Len(lg) : Contains(lg[i], "SEP")
    THEN CHOOSE i \in 1..Len(lg) :
           /\ Contains(lg[i], "SEP")
           /\ \A j \in (i+1)..Len(lg) : ~Contains(lg[j], "SEP")
    ELSE 0

\* The log segment since the sentinel: the messages after the last sentinel
\* message, the whole log when there is no sentinel message.
Segment(lg) == SubSeq(lg, LastSentinel(lg) + 1, Len(lg))

HasErr(seg) == \E i \in 1..Len(seg) : Contains(seg[i], "ERR")

\* The first message of seg, in log order, that contains the error marker.
FirstErr(seg) ==
    seg[CHOOSE i \in 1..Len(seg) :
          /\ Contains(seg[i], "ERR")
          /\ \A j \in 1..(i-1) : ~Contains(seg[j], "ERR")]

\* A step in which an operation that starts an instrument job delivers its
\* start action (the submit click, the start_dlw click, the file dialog's
\* ENTER).
StartDelivered ==
    /\ \/ \E c \in Commands, i \in BOOLEAN : ExecuteMiniGwl(c, TRUE, i)
       \/ \E i \in BOOLEAN, s \in BOOLEAN : StartDlw(i, s)
       \/ LoadGwlFile
    /\ ret'.out \in {"ok", "pending"}

\* C1: at most one command is in flight: a start action is delivered to the
\* instrument only when the instrument executes no job.
C1_OneCommandInFlight == [][StartDelivered => job = "none"]_vars

\* A step that is a call of execute_mini_gwl.
SubmitCall ==
    \E c \in Commands, e \in BOOLEAN, i \in BOOLEAN : ExecuteMiniGwl(c, e, i)

\* A submit that raised NotReady and did nothing else: no UI action, job
\* state, position cache and instrument as before.
RejectedUntouched ==
    /\ ret'.out = "NotReady"
    /\ ret'.did = {}
    /\ UNCHANGED <<job_running, cached_piezo_position, instr>>

\* C2 as stated: every submit called while the job state is Running raises
\* NotReady and has no side effect.
C2_SubmitWhileRunning == [][SubmitCall /\ job_running => RejectedUntouched]_vars

\* C2 amended: a submit called while the job state is Running and the
\* has_finished() check at its head returns false raises NotReady and has no
\* side effect.
C2_SubmitWhileUnfinished ==
    [][(/\ SubmitCall
        /\ job_running
        /\ has_finished(job_running, log, pixel).out = "false")
       => RejectedUntouched]_vars

\* C2 witness: a submit was rejected while the instrument executes a job
\* whose sentinel is in the log.
C2_Witness ==
    /\ ret.op = "execute_mini_gwl"
    /\ ret.out = "NotReady"
    /\ job_running
    /\ job = "run"
    /\ log # <<>> /\ Last(log) = mSep

\* A step that is a has_finished() call made while the job state is Running.
PollRunning == HasFinished /\ job_running

\* C3: when the job state is Running and a message of the segment since the
\* sentinel contains '!!!', has_finished() raises ExecutionError with the
\* text of the first such message, whatever follows it.
C3_ErrorWins ==
    [][(PollRunning /\ HasErr(Segment(log)))
       => /\ ret'.out = "ExecutionError"
          /\ ret'.val = FirstErr(Segment(log))]_vars

\* C3 witness: has_finished() raised the text of an error message that is
\* followed by a second error and by a final 'done.'.
C3_Witness ==
    /\ ret.op = "has_finished"
    /\ ret.out = "ExecutionError"
    /\ ret.val = mErr
    /\ log = <<mErr, mErrDone, mDone>>

\* C4: when the job state is Running, the last message of the segment since
\* the sentinel contains 'done.' and no message of the segment contains
\* '!!!', has_finished() returns true and the job state becomes Idle.
C4_DoneResets ==
    [][(/\ PollRunning
        /\ Segment(log) # <<>>
        /\ Contains(Last(Segment(log)), "DONE")
        /\ ~HasErr(Segment(log)))
       => /\ ret'.out = "true"
          /\ ~job_running']_vars

\* C4 witness: the Running branch (it read the log only) returned true on a
\* log whose error lies before the sentinel, and left the job state Idle.
C4_Witness ==
    /\ ret.op = "has_finished"
    /\ ret.out = "true"
    /\ ret.did = {"log"}
    /\ ~job_running
    /\ log = <<mErr, mSep, mDone>>

\* A step that is a has_finished() call made while the job state is Idle.
PollIdle == HasFinished /\ ~job_running

\* C5: when the job state is Idle, has_finished() returns true exactly when
\* the pixel is full blue or else the last message of the raw log matches the
\* completion marker, returns false without an error otherwise, does not read
\* the log when the pixel is full blue, and leaves the job state Idle.
C5_IdleHeuristics ==
    [][PollIdle
       => /\ ret'.out =
               IF \/ bar_full(pixel)
                  \/ (log # <<>> /\ MatchesDoneRe(Last(log)))
               THEN "true" ELSE "false"
          /\ (bar_full(pixel) => "log" \notin ret'.did)
          /\ ~job_running']_vars

\* C6: on an empty log has_finished() returns false and raises nothing, in
\* the Running state and in the Idle state with a pixel that is not full
\* blue.
C6_EmptyLogIsRunning ==
    [][(HasFinished /\ log = <<>> /\ (job_running \/ ~bar_full(pixel)))
       => ret'.out = "false"]_vars

\* C7: when the job state is Running and the sentinel message is the last
\* message of the log, has_finished() returns false, raises nothing and
\* leaves the job state Running.
C7_EmptySegmentIsRunning ==
    [][(PollRunning /\ log # <<>> /\ Last(log) = mSep)
       => /\ ret'.out = "false"
          /\ job_running']_vars

\* C7 witness: the Running branch returned false on a log that ends with the
\* sentinel, and the job state is still Running.
C7_Witness ==
    /\ ret.op = "has_finished"
    /\ ret.out = "false"
    /\ ret.did = {"log"}
    /\ job_running
    /\ log = <<mDone, mSep>>

\* The operations that run the poll loop of wait_until_finished().
WaitOps == {"wait_until_finished", "abort", "load_gwl_file"}

\* C8: wait_until_finished() is still in its loop only after polls that
\* returned false, has returned only after a poll that returned true, and a
\* poll that raised ExecutionError ended it at once with that error.
C8_WaitLoop ==
    /\ (pc = "wait" /\ ret.polled) => ret.poll = "false"
    /\ (ret.op \in WaitOps /\ ret.out = "ok")
         => (pc = "idle" /\ ret.polled /\ ret.poll = "true")
    /\ (ret.op \in WaitOps /\ ret.polled /\ ret.poll = "ExecutionError")
         => (pc = "idle" /\ ret.out = "ExecutionError")

\* C8 witness: wait_until_finished() returned after the submitted job wrote
\* its sentinel and then 'done.'.
C8_Witness ==
    /\ ret.op = "wait_until_finished"
    /\ ret.out = "ok"
    /\ ret.poll = "true"
    /\ ~job_running
    /\ Len(log) >= 2
    /\ log[Len(log) - 1] = mSep
    /\ Last(log) = mDone

\* C9: once abort() has clicked the abort button and control has left it, by
\* return or by a propagated error, the cached piezo position is absent.
C9_AbortInvalidates ==
    (ret.op = "abort" /\ ret.out \in {"ok", "ExecutionError"})
        => cached_piezo_position = None

\* A get_piezo_position() that read the piezo fields.
FreshRead == "fields" \in ret'.did

\* C10: a get_piezo_position() right after invalidate_piezo_position() reads
\* the instrument; with caching enabled, a get_piezo_position() that follows
\* an earlier one with no invalidation in between returns the same value and
\* reads nothing; with caching disabled every get_piezo_position() reads the
\* instrument.
C10_CacheRoundTrip ==
    [][GetPiezoPosition
       => /\ (ret.op = "invalidate_piezo_position" => FreshRead)
          /\ (cache_piezo_position /\ got # None)
               => (ret'.out = "ok" /\ ret'.val = got /\ ~FreshRead)
          /\ (~cache_piezo_position => FreshRead)]_vars

\* C10 witness: a second get_piezo_position() answered from the cache, with
\* a value the instrument no longer shows.
C10_Witness ==
    /\ ret.op = "get_piezo_position"
    /\ ret.out = "ok"
    /\ "fields" \notin ret.did
    /\ ret.val # read_piezo_position(piezo, z_green)

\* A submit that passed its head check with execute=False, and one that
\* passed it with execute=True.
StageCall ==
    /\ \E c \in Commands, i \in BOOLEAN : ExecuteMiniGwl(c, FALSE, i)
    /\ ret'.poll = "true"
ExecuteCall ==
    /\ \E c \in Commands, i \in BOOLEAN : ExecuteMiniGwl(c, TRUE, i)
    /\ ret'.poll = "true"

\* C17: a submit with execute=False pastes the script without clicking
\* 'submit', leaves the job state not Running, the position cache and the
\* instrument as they are; a submit with execute=True clicks 'submit' and
\* the job state becomes Running.
C17_StageOnly ==
    [][/\ StageCall
          => /\ "paste" \in ret'.did
             /\ "submit" \notin ret'.did
             /\ ~job_running'
             /\ UNCHANGED <<cached_piezo_position, instr>>
       /\ ExecuteCall
          => /\ "submit" \in ret'.did
             /\ job_running'
             /\ job' = "run"]_vars

\* C17 witness: a script was staged with a filled position cache, and the
\* job state is Idle.
C17_Witness ==
    /\ ret.op = "execute_mini_gwl"
    /\ ret.out = "staged"
    /\ ret.did = {"paste"}
    /\ ~job_running
    /\ cached_piezo_position # None

\* An API step that evaluated has_finished().
Polled == ret'.poll # "none" /\ ret' # ret

\* C18: a has_finished() that raises ExecutionError leaves the job state
\* Idle; the next has_finished() call or submit after it does not raise that
\* error again and is decided by the Idle heuristics (full-blue pixel, or a
\* last log message matching 'done.').
C18_ErrorResets ==
    [][/\ (Polled /\ ret'.poll = "ExecutionError") => ~job_running'
       /\ (ret.out = "ExecutionError" /\ (HasFinished \/ SubmitCall))
          => ret'.poll =
               IF bar_full(pixel) \/ MatchesDoneRe(Last(log))
               THEN "true" ELSE "false"]_vars

\* C18 witness: has_finished() raised the error of a job that the
\* instrument is still executing, and the job state is Idle.
C18_Witness ==
    /\ ret.op = "has_finished"
    /\ ret.out = "ExecutionError"
    /\ ~job_running
    /\ job = "run"
    /\ Last(log) = mErr

ReadInverted ==
    /\ ret.op = "get_piezo_position"
    /\ ret.out = "ok"
    /\ "fields" \in ret.did
    /\ is_z_inverted(z_green)

WithinRange(pos) == \A a \in 1..3 : 0 <= pos[a] /\ pos[a] <= piezo_range[a]

Dist(a, b) == IF a >= b THEN a - b ELSE b - a

\* C19 as stated: the transform applied to the transformed position gives
\* the original position back, and the transformed position lies within
\* [0, range].
C19_Involution ==
    ReadInverted
    => /\ read_piezo_position(ret.val, z_green) = piezo
       /\ WithinRange(ret.val)

\* C19 amended: the transformed position lies within [0, range] and keeps y;
\* the transform applied twice gives the original x and z back to within
\* half a float spacing at range, and exactly for every coordinate that is
\* a multiple of that spacing or at least half the range.
C19_InvolutionUpToRounding ==
    ReadInverted
    => LET twice == read_piezo_position(ret.val, z_green)
       IN  /\ WithinRange(ret.val)
           /\ ret.val[2] = piezo[2] /\ twice[2] = piezo[2]
           /\ \A a \in {1, 3} :
                /\ 2 * Dist(ret.val[a] + piezo[a], piezo_range[a])
                     <= Ulp(piezo_range[a])
                /\ 2 * Dist(twice[a], piezo[a]) <= Ulp(piezo_range[a])
                /\ (\/ piezo[a] % Ulp(piezo_range[a]) = 0
                    \/ 2 * piezo[a] >= piezo_range[a])
                   => twice[a] = piezo[a]

\* C19 witness: an inverted read of a position whose x is rounded by the
\* subtraction, so that the transform applied twice misses it.
C19_Witness ==
    /\ ReadInverted
    /\ 2 * piezo[1] < piezo_range[1]
    /\ read_piezo_position(ret.val, z_green)[1] # piezo[1]
    /\ read_piezo_position(ret.val, z_green)[3] = piezo[3]

\* A resolved location that is a file strictly inside the sandbox directory.
StrictlyInside(loc) ==
    /\ Len(loc) > Len(tmpfolder)
    /\ SubSeq(loc, 1, Len(tmpfolder)) = tmpfolder

\* C11: every path execute_complex_gwl_files opens, for writing a file of
\* the file map or for reading a readback file, resolves to a file strictly
\* inside the sandbox directory.
C11_PathsInsideSandbox == \A loc \in opened : StrictlyInside(loc)

\* A step that is a call of execute_complex_gwl_files with a start name that
\* is not a key of the file map.
UnknownStartCall ==
    \E s \in StartNames, fs \in FileMaps, rb \in Readbacks, i \in BOOLEAN :
      s \notin fs /\ ExecuteComplexGwlFiles(s, fs, rb, i)

\* C12: execute_complex_gwl_files called with a start name that is not a key
\* of the file map fails at once: it writes and opens no file, performs no UI
\* action, and leaves the job state, the position cache and the instrument as
\* they are.
C12_UnknownStartFails ==
    [][UnknownStartCall
       => /\ ret'.out = "AssertionError"
          /\ ret'.did = {}
          /\ pc' = "idle"
          /\ UNCHANGED <<job_running, cached_piezo_position, instr, aside>>]_vars

\* C12 witness: a call failed on its start name on a disk no call has
\* touched.
C12_Witness ==
    /\ ret.op = "execute_complex_gwl_files"
    /\ ret.out = "AssertionError"
    /\ opened = {}
    /\ written = {}
    /\ ~job_running

\* C13: when execute_complex_gwl_files has returned normally, the job it
\* started has resolved on the instrument and the job state is not Running.
C13_WaitsForCompletion ==
    (ret.op = "execute_complex_gwl_files" /\ ret.out = "ok")
        => (job = "none" /\ ~job_running)

\* The last request carried an Authorization header of the basic scheme
\* whose credential decodes to 'user:password' with user a configured key
\* and password that key's secret.
ValidHeader ==
    /\ server.last.headers.present
    /\ \E item \in server.users_auth.items :
         server.last.headers.value =
           <<"Basic", " ">> \o b64encode(item[1] \o <<":">> \o item[2])

NoCredentials == server.users_auth.none \/ server.users_auth.items = {}

\* C14: with no credential set authenticate() accepts every request; with a
\* non-empty set it accepts exactly the requests whose header decodes to a
\* configured user with that user's secret, and it rejects (returns false
\* for) every other request.
C14_AuthDecision ==
    server.last.seen
    => /\ NoCredentials => server.last.auth = "true"
       /\ ~NoCredentials
          => /\ server.last.auth = "true" <=> ValidHeader
             /\ ~ValidHeader => server.last.auth = "false"

\* C15: with a non-empty credential set, a request that fails
\* authentication gets a 401 response and is not dispatched.
C15_Unauthorized401 ==
    (server.last.seen /\ ~NoCredentials /\ ~ValidHeader)
    => (server.last.response = "401" /\ ~server.last.dispatched)

\* serve_forever() is looping and the signal handler has set the flag.
Flagged == server.pc \in {"test", "handle"} /\ server.finished

FromSentinel(lg) ==
    IF LastSentinel(lg) = 0 THEN lg
    ELSE SubSeq(lg, LastSentinel(lg), Len(lg))

\* C21 as stated: get_command_log() returns, in log order, exactly the
\* messages strictly after the last message that contains the sentinel, or
\* the whole log when no message contains the sentinel.
C21_StrictlyAfterSentinel ==
    ret.op = "get_command_log" => ret.val = Segment(log)

\* C21 amended: get_command_log() returns, in log order, exactly the last
\* message that contains the sentinel and the messages after it, or the
\* whole log when no message contains the sentinel.
C21_FromSentinelOn ==
    ret.op = "get_command_log" => ret.val = FromSentinel(log)

\* C21 witness: get_command_log() returned the second of two sentinel
\* messages and the message after it.
C21_Witness ==
    /\ ret.op = "get_command_log"
    /\ log = <<mSep, mSep, mDone>>
    /\ ret.val = <<mSep, mDone>>

\* A step in which execute_mini_gwl with execute=True, or start_dlw, called
\* with invalidate_piezo = i, returns.
CommandReturns(i) ==
    /\ \/ \E c \in Commands : ExecuteMiniGwl(c, TRUE, i)
       \/ \E s \in BOOLEAN : StartDlw(i, s)
    /\ ret'.out = "ok"

\* A step in which execute_complex_gwl_files called with the default
\* invalidate_piezo=True returns.
ComplexReturns ==
    /\ pc = "complex"
    /\ call.invalidate
    /\ pc' = "idle"
    /\ ret'.out = "ok"

\* C22 as stated: on return from execute_mini_gwl with execute=True, from
\* start_dlw, and from execute_complex_gwl_files with its default arguments,
\* the cached position is absent.
C22_CommandsInvalidate ==
    [][((\E i \in BOOLEAN : CommandReturns(i)) \/ ComplexReturns)
       => cached_piezo_position' = None]_vars

\* C22 amended: on return from execute_mini_gwl with execute=True and from
\* start_dlw, each called with invalidate_piezo left at its default True,
\* and from execute_complex_gwl_files with its default arguments, the cached
\* position is absent, and no value read before the command is held for a
\* later get_piezo_position().
C22_DefaultsInvalidate ==
    [][(CommandReturns(TRUE) \/ ComplexReturns)
       => /\ cached_piezo_position' = None
          /\ got' = None]_vars

\* C22 witness: execute_complex_gwl_files has returned with the job it
\* started running and the position cache empty.
C22_Witness ==
    /\ ret.op = "execute_complex_gwl_files"
    /\ ret.out = "ok"
    /\ "start_dlw" \in ret.did
    /\ job_running
    /\ cached_piezo_position = None

\* The parsing rule the claim states: a short line is skipped; a line whose
\* prefix is blank or does not parse continues the previous entry, and is
\* an error when there is none; every other line starts an entry.
RECURSIVE ReadAllFrom(_, _, _)
ReadAllFrom(lines, i, results) ==
    IF i > Len(lines) THEN [error |-> FALSE, entries |-> results]
    ELSE IF lines[i].width <= MinWidth
    THEN ReadAllFrom(lines, i + 1, results)
    ELSE IF lines[i].prefix \in {"blank", "junk"}
    THEN (IF results = <<>>
          THEN [error |-> TRUE, entries |-> <<>>]
          ELSE ReadAllFrom(lines, i + 1,
                 SubSeq(results, 1, Len(results) - 1) \o
                 <<[timestamp |-> Last(results).timestamp,
                    text |-> Last(results).text \o <<"NL">> \o
                             lines[i].text]>>))
    ELSE ReadAllFrom(lines, i + 1,
           results \o <<[timestamp |-> lines[i].stamp,
                         text |-> lines[i].text]>>)

\* C23: get_current_log() skips a line shorter than the minimum width,
\* appends a line whose timestamp prefix is blank or fails to parse to the
\* text of the previous entry, raises an error for such a line when there
\* is no entry yet, and starts a new entry with every other line, in the
\* file's line order.
C23_ContinuationLines ==
    ret.op = "get_current_log"
    => LET r == ReadAllFrom(logfile, 1, <<>>)
       IN  IF r.error THEN ret.out # "ok"
           ELSE ret.out = "ok" /\ ret.val = r.entries

\* Index of the error entry has_finished() reports on log lg: the first
\* message with '!!!' from the last sentinel message on.
ErrorEntry(lg) ==
    CHOOSE k \in 1..Len(lg) :
      /\ k >= LastSentinel(lg)
      /\ Contains(lg[k], "ERR")
      /\ \A j \in 1..(k - 1) : j >= LastSentinel(lg) => ~Contains(lg[j], "ERR")

\* C24: an ExecutionError raised by has_finished(), called directly or by
\* an operation, carries a message that the most recently started command
\* logged: the entry it reports was written after that command was started.
C24_ErrorOfCurrentCommand ==
    [][(Polled /\ ret'.poll = "ExecutionError")
       => /\ ret'.val = log[ErrorEntry(log)]
          /\ ErrorEntry(log) > job_from]_vars

\* C25: with caching enabled and a cached position present, the cached
\* position is what a fresh get_piezo_position() would compute from the
\* fields and the inversion the instrument shows now.
C25_CacheCoherent ==
    (cache_piezo_position /\ cached_piezo_position # None)
    => cached_piezo_position = read_piezo_position(piezo, z_green)

\* shutdown() has run, from the signal handler, and serve_forever() has not
\* returned.
ShutdownRequested == server.finished /\ server.pc # "returned"

\* C26: once shutdown() has run at any time after the signal was
\* registered, before serve_forever() is entered included, serve_forever()
\* eventually returns.
C26_ShutdownNeverLost == ShutdownRequested ~> (server.pc = "returned")

\* abort() is in its wait_until_finished() loop, the instrument has served
\* the click and stopped, and the entry it wrote, 'aborted.', is the last
\* of the log; nothing is logged from here on.
AbortedLogged ==
    /\ pc = "wait"
    /\ caller = "abort"
    /\ ~abort_req
    /\ job = "none"
    /\ log # <<>>
    /\ Last(log) = mAborted

\* C27: abort() terminates in every job state: once the instrument has put
\* 'aborted.' at the end of the log, the poll of abort()'s wait loop ends
\* the wait, whether the job state is Running or Idle and whatever the
\* finished-pixel shows. (No entry follows 'aborted.', so every later poll
\* sees what this one sees: abort() returns exactly if this poll ends the
\* wait.)
C27_AbortTerminates ==
    [][(AbortedLogged /\ WaitPoll) => pc' = "idle"]_vars

=============================================================================
